---- MODULE Spec2Model ----
(***************************************************************************)
(* A model of erpy's generational orchestrator (erpy/framework/ea.py), of *)
(* its distributed evaluator (erpy/evaluators/ray.py) and of its           *)
(* parameters (erpy/framework/parameters.py).                              *)
(*                                                                         *)
(* Spec      the orchestrator EA: run(), is_done(), analyze_genomes() and  *)
(*           the lazily built population / evaluator references.           *)
(* SpecEval  RayDistributedEvaluator.evaluate() against a pool of workers  *)
(*           whose jobs complete in any order, late, or never.             *)
(* SpecEvalFair  the same with the scheduling that termination needs.      *)
(* SpecParam the Parameter variants (erpy/framework/parameters.py): their  *)
(*           construction, reads, writes and random draws.                 *)
(***************************************************************************)
EXTENDS Integers, Sequences, FiniteSets, TLC

\* ---------------------------------------------------------------- bounds
MaxBudget == 2        \* budgets are drawn from None and 0..MaxBudget
MaxGen == 3           \* the generation counter is capped here
MaxEvals == 3         \* the cumulative evaluation counter is capped here
MaxBatch == 2         \* evaluations one evaluate() call may add
MaxWorkers == 2       \* the worker count is drawn from 1..MaxWorkers
MaxCalls == 2         \* evaluate() calls on one evaluator
MaxAdds == 4          \* genomes marked pending over all evaluate() calls
MaxFairAdds == 2      \* genomes marked pending where termination is checked
MaxOps == 2           \* run() / analyze_genomes() invocations on one EA
MaxVal == 2           \* parameter values are drawn from 0..MaxVal
MaxSize == 2          \* longest array a MultiDiscreteParameter is given

None == -1            \* Python's None for an Optional[int] / an unset reference

VARIABLES
    \* EAConfig (ea.py:14-27)
    num_generations, num_evaluations, from_checkpoint, evaluator_kind,
    \* EA (ea.py:55-63): cached role instances, 0 is None, n > 0 the n-th built
    ea_population, ea_evaluator, populations_built, evaluators_built,
    \* control state of the orchestrator
    ea_pc, ea_i, is_done_ret, calls, ops, last_op, last_error, analyze_ret,
    evaluators_at_start, evaluators_used, iterations, loop_start_generation,
    \* Population counters
    generation, pop_num_evaluations,
    \* Population collections
    genomes, to_evaluate, under_evaluation, evaluation_results,
    \* RayDistributedEvaluator: its configuration and its ActorPool
    num_workers, idle_actors, running, pending_submits,
    \* control state of evaluate()
    ev_pc, target_genomes, timeout,
    \* what the current evaluate() call has seen and done
    ev_calls, pending_at_start, clean_at_start, submitted, submitted_kinds,
    harvested, timed_out, overlap_added, orders, adds, under_at_start,
    abandoned,
    \* a Parameter (parameters.py): its variant, its domain, its _value
    par_kind, par_low, par_high, par_options, par_min_size, par_max_size,
    par_sorted, par_value,
    \* the value it was constructed with, and a SynchronizedParameter linked
    \* to it
    par_init, sync_built, sync_cached,
    \* the last operation on a parameter, its argument and its outcome
    par_op, par_arg, par_ret, par_repeats, par_changed, par_echo

ea_vars == <<num_generations, num_evaluations, from_checkpoint, evaluator_kind,
             ea_population, ea_evaluator, populations_built, evaluators_built,
             ea_pc, ea_i, is_done_ret, calls, ops, last_op, last_error, analyze_ret,
             evaluators_at_start, evaluators_used, iterations,
             loop_start_generation, generation, pop_num_evaluations>>

pop_vars == <<genomes, to_evaluate, under_evaluation, evaluation_results>>

ev_vars == <<num_workers, idle_actors, running, pending_submits, ev_pc,
             target_genomes, timeout, ev_calls, pending_at_start,
             clean_at_start, submitted, submitted_kinds, harvested, timed_out,
             overlap_added, orders, adds, under_at_start, abandoned>>

par_vars == <<par_kind, par_low, par_high, par_options, par_min_size,
              par_max_size, par_sorted, par_value, par_init, sync_built,
              sync_cached, par_op, par_arg, par_ret, par_repeats, par_changed,
              par_echo>>

vars == <<ea_vars, pop_vars, ev_vars, par_vars>>

\* ------------------------------------------------- Python's set of ints
\* population.to_evaluate is a Python set (it is filled with .add and emptied
\* with .clear).  CPython keeps a set in an open-addressing table that starts
\* with 8 slots; an int hashes to itself; iteration walks the slots in order.
GenomeIds == {1, 2, 9}    \* 1 and 9 share slot 1 of the 8-slot table

Slots == 0..7
NoKey == 0

EmptyTable == [s \in Slots |-> NoKey]

TableKeys(t) == {t[s] : s \in Slots} \ {NoKey}

\* The slot probed after slot i (set_add_entry on a table this small makes no
\* linear probes): perturb >>= PERTURB_SHIFT; i = (i * 5 + 1 + perturb) & mask.
RECURSIVE FreeSlot(_, _, _)
FreeSlot(t, i, perturb) ==
    IF t[i] = NoKey THEN i
    ELSE LET p == perturb \div 32
         IN  FreeSlot(t, (i * 5 + 1 + p) % Cardinality(Slots), p)

set_add(t, key) ==
    IF key \in TableKeys(t) THEN t
    ELSE [t EXCEPT ![FreeSlot(t, key % Cardinality(Slots), key)] = key]

RECURSIVE IterFrom(_, _)
IterFrom(t, s) ==
    IF s \notin Slots THEN <<>>
    ELSE IF t[s] = NoKey THEN IterFrom(t, s + 1)
    ELSE <<t[s]>> \o IterFrom(t, s + 1)

set_iter(t) == IterFrom(t, 0)

\* ------------------------------------------------------- Python values
\* A value a Parameter stores or returns: None, a number, a numpy array or a
\* Python list.  A number is kept as a one-element v.
NoneValue == [tag |-> "None", v |-> <<>>]

Scalar(x) == [tag |-> "scalar", v |-> <<x>>]

Array(q) == [tag |-> "ndarray", v |-> q]

List(q) == [tag |-> "list", v |-> q]

\* The outcome of a call: the value it returns, or the exception it raises.
Ok(val) == [err |-> "none", val |-> val]

Raised(e) == [err |-> e, val |-> NoneValue]

\* No parameter object exists while the orchestrator or the evaluator is
\* exercised.
ParamsUnused ==
    /\ par_kind = "none"
    /\ par_low = 0
    /\ par_high = 0
    /\ par_options = {}
    /\ par_min_size = 0
    /\ par_max_size = 0
    /\ par_sorted = FALSE
    /\ par_value = NoneValue
    /\ par_init = NoneValue
    /\ sync_built = FALSE
    /\ sync_cached = NoneValue
    /\ par_op = "none"
    /\ par_arg = NoneValue
    /\ par_ret = Ok(NoneValue)
    /\ par_repeats = TRUE
    /\ par_changed = FALSE
    /\ par_echo = TRUE

\* ---------------------------------------------------------- orchestrator
\* Mutant: the fresh-mode seeding is also called in resumed mode.
PreludeAlwaysSeeds ==
    IF from_checkpoint
    THEN <<"load_checkpoint", "initialise_population", "select">>
    ELSE <<"initialise_population">>

\* The calls before the loop (ea.py:114-121).
Prelude ==
    IF from_checkpoint
    THEN <<"load_checkpoint", "initialise_from_checkpoint", "select">>
    ELSE <<"initialise_population">>

\* Mutant: the population is logged before it is evaluated.
LoopBodyLogsFirst ==
    <<"before_reproduction", "reproduce", "after_reproduction",
      "before_logging", "log", "after_logging",
      "before_evaluation", "evaluate", "after_evaluation",
      "before_saving", "save", "after_saving",
      "before_selection", "select", "after_selection">>

\* The statements of one loop iteration (ea.py:124-138).
LoopBody ==
    <<"before_reproduction", "reproduce", "after_reproduction",
      "before_evaluation", "evaluate", "after_evaluation",
      "before_logging", "log", "after_logging",
      "before_saving", "save", "after_saving",
      "before_selection", "select", "after_selection">>

\* Mutant: the generation budget is met only once it is exceeded.
is_done_strict ==
    LET d0 == FALSE
        d1 == IF num_generations # None /\ generation > num_generations
              THEN TRUE ELSE d0
        d2 == IF num_evaluations # None /\ pop_num_evaluations >= num_evaluations
              THEN TRUE ELSE d1
    IN  d2

\* Mutant: the evaluation budget is compared without testing that it is set.
is_done_unset_budget ==
    LET d0 == FALSE
        d1 == IF num_generations # None /\ generation >= num_generations
              THEN TRUE ELSE d0
        d2 == IF pop_num_evaluations >= num_evaluations
              THEN TRUE ELSE d1
    IN  d2

\* EA.is_done (ea.py:105-111): two independent ifs over a flag that starts False.
is_done ==
    LET d0 == FALSE
        d1 == IF num_generations # None /\ generation >= num_generations
              THEN TRUE ELSE d0
        d2 == IF num_evaluations # None /\ pop_num_evaluations >= num_evaluations
              THEN TRUE ELSE d1
    IN  d2

\* ---------------------------------------------------- distributed evaluator
\* How a job submitted to a worker behaves: it completes before any harvest
\* deadline that is running expires ("prompt"), it completes at some time of
\* its own ("slow"), or it never completes ("never"); or it ends at some time
\* of its own with an exception, which the pull of its result raises
\* ("fails").
Kinds == {"prompt", "slow", "never", "fails"}

NoJob == [id |-> NoKey, kind |-> "none", ready |-> FALSE]

Job(id, kind) == [id |-> id, kind |-> kind, ready |-> FALSE]

\* No evaluate() call has been made or is in progress.
NoCallYet ==
    /\ pending_submits = <<>>
    /\ ev_pc = "idle"
    /\ target_genomes = <<>>
    /\ timeout = None
    /\ ev_calls = 0
    /\ pending_at_start = {}
    /\ clean_at_start = TRUE
    /\ submitted = <<>>
    /\ submitted_kinds = <<>>
    /\ harvested = {}
    /\ timed_out = FALSE
    /\ overlap_added = FALSE
    /\ orders = {}
    /\ adds = 0
    /\ under_at_start = <<>>
    /\ abandoned = {}

\* The orchestrator's view: no distributed evaluator has been built.
EvaluatorUnused ==
    /\ num_workers = 0
    /\ idle_actors = <<>>
    /\ running = <<>>
    /\ NoCallYet

Budgets == {None} \cup 0..MaxBudget

Init ==
    /\ num_generations \in Budgets
    /\ num_evaluations \in Budgets
    /\ from_checkpoint \in BOOLEAN
    /\ evaluator_kind \in {"generic", "ray"}
    /\ ea_population = 0
    /\ ea_evaluator = 0
    /\ populations_built = 0
    /\ evaluators_built = 0
    /\ ea_pc = "idle"
    /\ ea_i = 0
    /\ is_done_ret = FALSE
    /\ calls = <<>>
    /\ ops = 0
    /\ last_op = "none"
    /\ last_error = "none"
    /\ analyze_ret = <<>>
    /\ evaluators_at_start = 0
    /\ evaluators_used = {}
    /\ iterations = 0
    /\ loop_start_generation = 0
    /\ generation = 0
    /\ pop_num_evaluations = 0
    /\ genomes = {}
    /\ to_evaluate = EmptyTable
    /\ under_evaluation = <<>>
    /\ evaluation_results = <<>>
    /\ EvaluatorUnused
    /\ ParamsUnused

\* The population property (ea.py:69-73) builds the population on first access.
PopulationAccess ==
    /\ ea_population' = IF ea_population = 0 THEN populations_built + 1
                        ELSE ea_population
    /\ populations_built' = IF ea_population = 0 THEN populations_built + 1
                            ELSE populations_built

\* A population as its factory returns it: no genomes, empty queues.
NewCollections ==
    /\ genomes' = {}
    /\ to_evaluate' = EmptyTable
    /\ under_evaluation' = <<>>
    /\ evaluation_results' = <<>>

\* The evaluator constructor fails for the distributed evaluator: __init__
\* calls _build_pool, which reads self.config, and the config property
\* (ray.py:24-26) returns self.config, i.e. calls itself without end.
ConstructorRaises(kind) == kind = "ray"

\* Keyword parameters evaluate() accepts: the distributed evaluator declares
\* evaluate(self, population) (ray.py:32); the abstract capability declares
\* evaluate(population, analyze=false).
EvaluateParams(kind) ==
    IF kind = "ray" THEN {"population"} ELSE {"population", "analyze"}

\* EA.run entry (ea.py:113).
StartRun ==
    /\ UNCHANGED <<ev_vars, par_vars>>
    /\ ea_pc = "idle"
    /\ ops < MaxOps
    /\ ops' = ops + 1
    /\ last_op' = "run"
    /\ last_error' = "none"
    /\ calls' = <<>>
    /\ evaluators_at_start' = evaluators_built
    /\ evaluators_used' = {}
    /\ ea_pc' = "prepare"
    /\ ea_i' = 1
    /\ iterations' = 0
    /\ UNCHANGED <<loop_start_generation, num_generations, num_evaluations, from_checkpoint,
                   evaluator_kind, ea_population, ea_evaluator,
                   populations_built, evaluators_built, is_done_ret,
                   analyze_ret, generation, pop_num_evaluations, pop_vars>>

\* One call of the preparation (ea.py:114-121).
RunPrepare ==
    /\ UNCHANGED <<ev_vars, par_vars>>
    /\ ea_pc = "prepare"
    /\ PopulationAccess
    /\ calls' = Append(calls, Prelude[ea_i])
    /\ IF Prelude[ea_i] = "load_checkpoint"
       THEN /\ generation' \in 0..MaxGen
            /\ pop_num_evaluations' \in 0..MaxEvals
       ELSE /\ generation' = IF ea_population = 0 THEN 0 ELSE generation
            /\ pop_num_evaluations' =
                   IF ea_population = 0 THEN 0 ELSE pop_num_evaluations
    /\ IF ea_population = 0 THEN NewCollections ELSE UNCHANGED pop_vars
    /\ IF ea_i < Len(Prelude)
       THEN /\ ea_pc' = "prepare"
            /\ ea_i' = ea_i + 1
            /\ UNCHANGED loop_start_generation
       ELSE /\ ea_pc' = "while"
            /\ ea_i' = 0
            /\ loop_start_generation' = generation'
    /\ UNCHANGED <<iterations, num_generations, num_evaluations, from_checkpoint,
                   evaluator_kind, ea_evaluator, evaluators_built, is_done_ret,
                   ops, last_op, last_error, analyze_ret, evaluators_at_start,
                   evaluators_used>>

\* The loop condition calls is_done() (ea.py:123).
WhileTest ==
    /\ UNCHANGED <<ev_vars, par_vars>>
    /\ ea_pc = "while"
    /\ is_done_ret' = is_done
    /\ ea_pc' = "branch"
    /\ UNCHANGED <<iterations, loop_start_generation, num_generations, num_evaluations, from_checkpoint,
                   evaluator_kind, ea_population, ea_evaluator,
                   populations_built, evaluators_built, ea_i, calls, ops,
                   last_op, last_error, analyze_ret, evaluators_at_start,
                   evaluators_used, generation, pop_num_evaluations, pop_vars>>

\* while not is_done: enter the body, or leave the loop (ea.py:123).
WhileBranch ==
    /\ UNCHANGED <<ev_vars, par_vars>>
    /\ ea_pc = "branch"
    /\ IF is_done_ret
       THEN ea_pc' = "discard" /\ ea_i' = 0
       ELSE generation < MaxGen /\ ea_pc' = "body" /\ ea_i' = 1
    /\ UNCHANGED <<iterations, loop_start_generation, num_generations, num_evaluations, from_checkpoint,
                   evaluator_kind, ea_population, ea_evaluator,
                   populations_built, evaluators_built, is_done_ret, calls, ops,
                   last_op, last_error, analyze_ret, evaluators_at_start,
                   evaluators_used, generation, pop_num_evaluations, pop_vars>>

\* One statement of the loop body (ea.py:124-138).  The evaluation statement
\* reads the evaluator property (ea.py:75-79), which builds the evaluator when
\* none is cached; a constructor that raises ends run() there.
BodyStep ==
    /\ UNCHANGED <<ev_vars, par_vars>>
    /\ ea_pc = "body"
    /\ IF LoopBody[ea_i] = "evaluate"
       THEN IF ea_evaluator = 0 /\ ConstructorRaises(evaluator_kind)
            THEN /\ last_error' = "RecursionError"
                 /\ ea_pc' = "idle"
                 /\ ea_i' = 0
                 /\ UNCHANGED <<calls, ea_evaluator, evaluators_built,
                                evaluators_used, pop_num_evaluations>>
            ELSE /\ ea_evaluator' = IF ea_evaluator = 0
                                    THEN evaluators_built + 1 ELSE ea_evaluator
                 /\ evaluators_built' = IF ea_evaluator = 0
                                        THEN evaluators_built + 1
                                        ELSE evaluators_built
                 /\ evaluators_used' = evaluators_used \cup {ea_evaluator'}
                 /\ calls' = Append(calls, LoopBody[ea_i])
                 /\ \E n \in 0..MaxBatch :
                        /\ pop_num_evaluations + n <= MaxEvals
                        /\ pop_num_evaluations' = pop_num_evaluations + n
                 /\ ea_pc' = "body"
                 /\ ea_i' = ea_i + 1
                 /\ UNCHANGED last_error
       ELSE /\ calls' = Append(calls, LoopBody[ea_i])
            /\ IF ea_i < Len(LoopBody)
               THEN ea_pc' = "body" /\ ea_i' = ea_i + 1
               ELSE ea_pc' = "incr" /\ ea_i' = 0
            /\ UNCHANGED <<ea_evaluator, evaluators_built, evaluators_used,
                           pop_num_evaluations, last_error>>
    /\ UNCHANGED <<iterations, loop_start_generation, num_generations, num_evaluations, from_checkpoint,
                   evaluator_kind, ea_population, populations_built,
                   is_done_ret, ops, last_op, analyze_ret, evaluators_at_start,
                   generation, pop_vars>>

\* Mutant: the generation counter is advanced by two.
IncrGenerationByTwo ==
    /\ UNCHANGED <<ev_vars, par_vars>>
    /\ ea_pc = "incr"
    /\ generation' = generation + 2
    /\ ea_pc' = "while"
    /\ iterations' = iterations + 1
    /\ UNCHANGED <<loop_start_generation, num_generations, num_evaluations, from_checkpoint,
                   evaluator_kind, ea_population, ea_evaluator,
                   populations_built, evaluators_built, ea_i, is_done_ret,
                   calls, ops, last_op, last_error, analyze_ret,
                   evaluators_at_start, evaluators_used, pop_num_evaluations,
                   pop_vars>>

\* self.population.generation += 1 (ea.py:139).
IncrGeneration ==
    /\ UNCHANGED <<ev_vars, par_vars>>
    /\ ea_pc = "incr"
    /\ generation' = generation + 1
    /\ ea_pc' = "while"
    /\ iterations' = iterations + 1
    /\ UNCHANGED <<loop_start_generation, num_generations, num_evaluations, from_checkpoint,
                   evaluator_kind, ea_population, ea_evaluator,
                   populations_built, evaluators_built, ea_i, is_done_ret,
                   calls, ops, last_op, last_error, analyze_ret,
                   evaluators_at_start, evaluators_used, pop_num_evaluations,
                   pop_vars>>

\* self._evaluator = None, then run() returns (ea.py:141).
DiscardEvaluator ==
    /\ UNCHANGED <<ev_vars, par_vars>>
    /\ ea_pc = "discard"
    /\ ea_evaluator' = 0
    /\ ea_pc' = "idle"
    /\ UNCHANGED <<iterations, loop_start_generation, num_generations, num_evaluations, from_checkpoint,
                   evaluator_kind, ea_population, populations_built,
                   evaluators_built, ea_i, is_done_ret, calls, ops, last_op,
                   last_error, analyze_ret, evaluators_at_start,
                   evaluators_used, generation, pop_num_evaluations, pop_vars>>

\* Lists of genomes with pairwise different ids, as handed to analyze_genomes.
GenomeLists ==
    {q \in UNION {[1..n -> GenomeIds] : n \in 0..Cardinality(GenomeIds)} :
        \A i, j \in DOMAIN q : i # j => q[i] # q[j]}

RECURSIVE AddAll(_, _)
AddAll(t, q) == IF q = <<>> THEN t ELSE AddAll(set_add(t, Head(q)), Tail(q))

SeqToSet(q) == {q[i] : i \in DOMAIN q}

\* EA.analyze_genomes (ea.py:160-170), as one call.  The population is dropped
\* and rebuilt, the genomes are stored and marked pending, the evaluator is
\* read (built when none is cached) and evaluate(population, analyze=True) is
\* called.  An evaluator that follows the abstract contract moves every
\* pending id to the result list.
AnalyzeGenomes(gs) ==
    /\ UNCHANGED <<ev_vars, par_vars>>
    /\ ea_pc = "idle"
    /\ ops < MaxOps
    /\ ops' = ops + 1
    /\ last_op' = "analyze"
    /\ ea_population' = populations_built + 1
    /\ populations_built' = populations_built + 1
    /\ generation' = 0
    /\ genomes' = SeqToSet(gs)
    /\ under_evaluation' = <<>>
    /\ IF ea_evaluator = 0 /\ ConstructorRaises(evaluator_kind)
       THEN /\ last_error' = "RecursionError"
            /\ to_evaluate' = AddAll(EmptyTable, gs)
            /\ evaluation_results' = <<>>
            /\ pop_num_evaluations' = 0
            /\ UNCHANGED <<ea_evaluator, evaluators_built, analyze_ret>>
       ELSE /\ ea_evaluator' = IF ea_evaluator = 0
                               THEN evaluators_built + 1 ELSE ea_evaluator
            /\ evaluators_built' = IF ea_evaluator = 0
                                   THEN evaluators_built + 1 ELSE evaluators_built
            /\ IF "analyze" \in EvaluateParams(evaluator_kind)
               THEN /\ last_error' = "none"
                    /\ to_evaluate' = EmptyTable
                    /\ evaluation_results' = set_iter(AddAll(EmptyTable, gs))
                    /\ \E n \in 0..MaxBatch : pop_num_evaluations' = n
                    /\ analyze_ret' = evaluation_results'
               ELSE /\ last_error' = "TypeError"
                    /\ to_evaluate' = AddAll(EmptyTable, gs)
                    /\ evaluation_results' = <<>>
                    /\ pop_num_evaluations' = 0
                    /\ UNCHANGED analyze_ret
    /\ UNCHANGED <<iterations, loop_start_generation, num_generations, num_evaluations, from_checkpoint,
                   evaluator_kind, ea_pc, ea_i, is_done_ret, calls,
                   evaluators_at_start, evaluators_used>>

Next ==
    \/ StartRun
    \/ RunPrepare
    \/ WhileTest
    \/ WhileBranch
    \/ BodyStep
    \/ IncrGeneration
    \/ DiscardEvaluator
    \/ \E gs \in GenomeLists : AnalyzeGenomes(gs)

Spec == Init /\ [][Next]_vars


\* ------------------------------------------- RayDistributedEvaluator.evaluate
\* The orchestrator is at rest while the evaluator is exercised on its own.
OrchestratorAtRest ==
    /\ num_generations = None
    /\ num_evaluations = None
    /\ from_checkpoint = FALSE
    /\ evaluator_kind = "ray"
    /\ ea_population = 1
    /\ ea_evaluator = 1
    /\ populations_built = 1
    /\ evaluators_built = 1
    /\ ea_pc = "idle"
    /\ ea_i = 0
    /\ is_done_ret = FALSE
    /\ calls = <<>>
    /\ ops = 0
    /\ last_op = "none"
    /\ last_error = "none"
    /\ analyze_ret = <<>>
    /\ evaluators_at_start = 0
    /\ evaluators_used = {}
    /\ iterations = 0
    /\ loop_start_generation = 0
    /\ generation = 0
    /\ pop_num_evaluations = 0

\* An evaluator whose pool is the one _build_pool returns (ray.py:28-30):
\* num_workers workers, all idle; and an empty population.
InitEval ==
    /\ OrchestratorAtRest
    /\ genomes = {}
    /\ to_evaluate = EmptyTable
    /\ under_evaluation = <<>>
    /\ evaluation_results = <<>>
    /\ num_workers \in 1..MaxWorkers
    /\ idle_actors = [a \in 1..num_workers |-> a]
    /\ running = [a \in 1..num_workers |-> NoJob]
    /\ NoCallYet
    /\ ParamsUnused

Busy == {a \in DOMAIN running : running[a] # NoJob}

\* ActorPool.has_next (called at ray.py:47): some submitted job is in flight.
has_next == Busy # {}

\* The ids of the jobs the pool holds, running or queued.
Outstanding ==
    {running[a].id : a \in Busy}
        \cup {pending_submits[k].id : k \in DOMAIN pending_submits}

\* Mutant: the deadline is left as it is.
deadline_unchanged(t) == t

\* timeout = 5 after a pull that returned (ray.py:53).
deadline_after_pull(t) == 5

\* Mutant: the result list is left as it is.
results_kept(q) == q

\* population.evaluation_results.clear() (ray.py:44).
results_cleared(q) == <<>>

\* Mutant: the pending set is left as it is.
pending_kept(t) == t

\* population.to_evaluate.clear() (ray.py:43).
pending_cleared(t) == EmptyTable

\* Mutant: the id stays in the list.
list_remove_nothing(q, x) == q

\* list.remove (ray.py:52): the list without the first occurrence of x.
RECURSIVE list_remove(_, _)
list_remove(q, x) ==
    IF q = <<>> THEN <<>>
    ELSE IF Head(q) = x THEN Tail(q)
    ELSE <<Head(q)>> \o list_remove(Tail(q), x)

\* A genome is stored in the population and marked pending, as the callers of
\* evaluate() do between calls (ea.py:165-166).
AddPending(id) ==
    /\ ev_pc = "idle"
    /\ ev_calls < MaxCalls
    /\ id \notin TableKeys(to_evaluate)
    /\ adds < MaxAdds
    /\ adds' = adds + 1
    /\ genomes' = genomes \cup {id}
    /\ to_evaluate' = set_add(to_evaluate, id)
    /\ overlap_added' = (overlap_added \/ id \in SeqToSet(under_evaluation))
    /\ UNCHANGED <<par_vars, ea_vars, under_at_start, abandoned, under_evaluation, evaluation_results, num_workers,
                   idle_actors, running, pending_submits, ev_pc, target_genomes,
                   timeout, ev_calls, pending_at_start, clean_at_start,
                   submitted, submitted_kinds, harvested, timed_out, orders>>

\* evaluate() is entered and resolves the pending ids to genomes, in the
\* iteration order of the pending set (ray.py:33-36).
EvaluateBegin ==
    /\ ev_pc = "idle"
    /\ ev_calls < MaxCalls
    /\ ev_calls' = ev_calls + 1
    /\ IF TableKeys(to_evaluate) \subseteq genomes
       THEN ev_pc' = "submit" /\ target_genomes' = set_iter(to_evaluate)
       ELSE ev_pc' = "KeyError" /\ target_genomes' = <<>>
    /\ pending_at_start' = TableKeys(to_evaluate)
    /\ under_at_start' = under_evaluation
    /\ clean_at_start' = (~has_next /\ pending_submits = <<>>)
    /\ submitted' = <<>>
    /\ submitted_kinds' = <<>>
    /\ harvested' = {}
    /\ timed_out' = FALSE
    /\ UNCHANGED <<par_vars, ea_vars, abandoned, pop_vars, num_workers, idle_actors, running,
                   pending_submits, timeout, overlap_added, orders, adds>>

\* One iteration of the submission loop (ray.py:38-41).  ActorPool.submit
\* starts the job on the idle actor it pops, or queues it when none is idle;
\* then the id is appended to under_evaluation.
SubmitNext ==
    /\ ev_pc = "submit"
    /\ target_genomes # <<>>
    /\ \E kind \in Kinds :
        LET g == Head(target_genomes)
            a == idle_actors[Len(idle_actors)]
        IN  /\ IF idle_actors # <<>>
               THEN /\ running' = [running EXCEPT ![a] = Job(g, kind)]
                    /\ idle_actors' = SubSeq(idle_actors, 1, Len(idle_actors) - 1)
                    /\ UNCHANGED pending_submits
               ELSE /\ pending_submits' = Append(pending_submits, Job(g, kind))
                    /\ UNCHANGED <<running, idle_actors>>
            /\ under_evaluation' = Append(under_evaluation, g)
            /\ submitted' = Append(submitted, g)
            /\ submitted_kinds' = Append(submitted_kinds, kind)
    /\ target_genomes' = Tail(target_genomes)
    /\ UNCHANGED <<par_vars, ea_vars, under_at_start, abandoned, genomes, to_evaluate, evaluation_results,
                   num_workers, ev_pc, timeout, ev_calls, pending_at_start,
                   clean_at_start, harvested, timed_out, overlap_added, orders, adds>>

\* After the last submission: the pending set and the result list are
\* cleared and the first pull gets no deadline (ray.py:43-46).
ClearStep ==
    /\ ev_pc = "submit"
    /\ target_genomes = <<>>
    /\ to_evaluate' = pending_cleared(to_evaluate)
    /\ evaluation_results' = results_cleared(evaluation_results)
    /\ timeout' = None
    /\ ev_pc' = "harvest"
    /\ orders' = orders \cup {<<pending_at_start, submitted>>}
    /\ UNCHANGED <<par_vars, ea_vars, under_at_start, abandoned, genomes, under_evaluation, num_workers, idle_actors,
                   running, pending_submits, target_genomes, ev_calls,
                   pending_at_start, clean_at_start, submitted, submitted_kinds,
                   harvested, timed_out, overlap_added, adds>>

\* A running job finishes on its worker.
JobCompletes(a) ==
    /\ a \in Busy
    /\ ~running[a].ready
    /\ running[a].kind # "never"
    /\ running' = [running EXCEPT ![a].ready = TRUE]
    /\ UNCHANGED <<par_vars, ea_vars, under_at_start, abandoned, pop_vars, num_workers, idle_actors, pending_submits,
                   ev_pc, target_genomes, timeout, ev_calls, pending_at_start,
                   clean_at_start, submitted, submitted_kinds, harvested,
                   timed_out, overlap_added, orders, adds>>

\* One pass of the harvest loop that gets a result (ray.py:47-53).
\* get_next_unordered hands out a finished job, returns its actor to the pool
\* and starts the oldest queued job on it; the result is then looked up,
\* appended to the result list and its id removed from under_evaluation.
\* The exception of a job that failed is raised by the pull and, not being a
\* TimeoutError, leaves evaluate().
HarvestNext(a) ==
    /\ ev_pc = "harvest"
    /\ has_next
    /\ a \in Busy
    /\ running[a].ready
    /\ LET id == running[a].id
       IN  /\ IF pending_submits # <<>>
              THEN /\ running' = [running EXCEPT ![a] = Head(pending_submits)]
                   /\ pending_submits' = Tail(pending_submits)
                   /\ UNCHANGED idle_actors
              ELSE /\ running' = [running EXCEPT ![a] = NoJob]
                   /\ idle_actors' = Append(idle_actors, a)
                   /\ UNCHANGED pending_submits
           /\ abandoned' = abandoned \ {id}
           /\ IF running[a].kind = "fails"
              THEN /\ ev_pc' = "RayTaskError"
                   /\ UNCHANGED <<evaluation_results, under_evaluation, timeout,
                                  harvested>>
              ELSE IF id \notin genomes
              THEN /\ ev_pc' = "KeyError"
                   /\ UNCHANGED <<evaluation_results, under_evaluation, timeout,
                                  harvested>>
              ELSE /\ evaluation_results' = Append(evaluation_results, id)
                   /\ IF id \in SeqToSet(under_evaluation)
                      THEN /\ under_evaluation' = list_remove(under_evaluation, id)
                           /\ timeout' = deadline_after_pull(timeout)
                           /\ harvested' = harvested \cup {id}
                           /\ ev_pc' = "harvest"
                      ELSE /\ ev_pc' = "ValueError"
                           /\ UNCHANGED <<under_evaluation, timeout, harvested>>
    /\ UNCHANGED <<par_vars, ea_vars, under_at_start, genomes, to_evaluate, num_workers, target_genomes,
                   ev_calls, pending_at_start, clean_at_start, submitted,
                   submitted_kinds, timed_out, overlap_added, orders, adds>>

\* A pull with a deadline finds nothing ready in time: TimeoutError, caught,
\* ends the loop and the call (ray.py:54-55).  The deadline cannot expire
\* while a prompt job is running.
HarvestTimeout ==
    /\ ev_pc = "harvest"
    /\ has_next
    /\ timeout # None
    /\ \A a \in Busy : ~running[a].ready /\ running[a].kind # "prompt"
    /\ timed_out' = TRUE
    /\ abandoned' = abandoned \cup Outstanding
    /\ ev_pc' = "done"
    /\ UNCHANGED <<par_vars, ea_vars, under_at_start, pop_vars, num_workers, idle_actors, running,
                   pending_submits, target_genomes, timeout, ev_calls,
                   pending_at_start, clean_at_start, submitted, submitted_kinds,
                   harvested, overlap_added, orders, adds>>

\* The pool reports no outstanding work: the loop and the call end (ray.py:47).
HarvestEnd ==
    /\ ev_pc = "harvest"
    /\ ~has_next
    /\ ev_pc' = "done"
    /\ UNCHANGED <<par_vars, ea_vars, under_at_start, abandoned, pop_vars, num_workers, idle_actors, running,
                   pending_submits, target_genomes, timeout, ev_calls,
                   pending_at_start, clean_at_start, submitted, submitted_kinds,
                   harvested, timed_out, overlap_added, orders, adds>>

\* The caller goes on after evaluate() has returned.
CallerResumes ==
    /\ ev_pc = "done"
    /\ ev_pc' = "idle"
    /\ UNCHANGED <<par_vars, ea_vars, under_at_start, abandoned, pop_vars, num_workers, idle_actors, running,
                   pending_submits, target_genomes, timeout, ev_calls,
                   pending_at_start, clean_at_start, submitted, submitted_kinds,
                   harvested, timed_out, overlap_added, orders, adds>>

NextEval ==
    \/ \E id \in GenomeIds : AddPending(id)
    \/ EvaluateBegin
    \/ SubmitNext
    \/ ClearStep
    \/ \E a \in DOMAIN running : JobCompletes(a)
    \/ \E a \in DOMAIN running : HarvestNext(a)
    \/ HarvestTimeout
    \/ HarvestEnd
    \/ CallerResumes

SpecEval == InitEval /\ [][NextEval]_vars

\* A step of evaluate() itself: the thread that called it keeps running.
EvaluateStep ==
    \/ SubmitNext
    \/ ClearStep
    \/ \E a \in DOMAIN running : HarvestNext(a)
    \/ HarvestTimeout
    \/ HarvestEnd

\* The steps of NextEval, with fewer genomes marked pending.
NextEvalFair ==
    \/ \E id \in GenomeIds : adds < MaxFairAdds /\ AddPending(id)
    \/ EvaluateBegin
    \/ SubmitNext
    \/ ClearStep
    \/ \E a \in DOMAIN running : JobCompletes(a)
    \/ \E a \in DOMAIN running : HarvestNext(a)
    \/ HarvestTimeout
    \/ HarvestEnd
    \/ CallerResumes

\* The evaluator with its scheduling: evaluate() takes its next step when it
\* has one, and a job that is running and is not one that never completes
\* does complete.
SpecEvalFair ==
    /\ InitEval
    /\ [][NextEvalFair]_vars
    /\ WF_vars(EvaluateStep)
    /\ \A a \in 1..MaxWorkers : WF_vars(JobCompletes(a))

\* ---------------------------------------------- erpy/framework/parameters.py
Vals == 0..MaxVal

ParamKinds == {"fixed", "continuous", "range", "discrete", "multi"}

\* Option lists: 1..k, so that 0 is never an option.
OptionSets == {1..k : k \in 2..MaxVal}

\* Sequences over S of the lengths in lens.
SeqsOf(S, lens) == UNION {[1..n -> S] : n \in lens}

NoDuplicates(q) == \A i, j \in DOMAIN q : i # j => q[i] # q[j]

\* np.clip (parameters.py:82, 105): minimum(maximum(x, lo), hi).
np_clip(x, lo, hi) ==
    LET m == IF x < lo THEN lo ELSE x
    IN  IF m > hi THEN hi ELSE m

RECURSIVE Insert(_, _)
Insert(x, q) ==
    IF q = <<>> THEN <<x>>
    ELSE IF x <= Head(q) THEN <<x>> \o q
    ELSE <<Head(q)>> \o Insert(x, Tail(q))

\* Python's sorted() (parameters.py:106, 154): a new ascending list.
RECURSIVE sorted(_)
sorted(q) == IF q = <<>> THEN <<>> ELSE Insert(Head(q), sorted(Tail(q)))

\* What set_random_value may store (parameters.py:89-90, 116-117, 136-137,
\* 163-165): a uniform draw from [low, high], two such draws, one option, or
\* min_size..max_size options drawn without replacement.  A FixedParameter
\* draws nothing.
RandomValues ==
    CASE par_kind = "fixed" -> {NoneValue}
      [] par_kind = "continuous" -> {Scalar(x) : x \in par_low..par_high}
      [] par_kind = "range" ->
            {Array(<<x, y>>) : x \in par_low..par_high, y \in par_low..par_high}
      [] par_kind = "discrete" -> {Scalar(x) : x \in par_options}
      [] par_kind = "multi" ->
            {Array(q) : q \in {r \in SeqsOf(par_options,
                                            par_min_size..par_max_size) :
                                 NoDuplicates(r)}}

\* The draws that matter to a getter: one is made only when _value is None.
Draws == IF par_value = NoneValue THEN RandomValues ELSE {NoneValue}

\* The values a caller may hand to the value setter of the parameter.
WriteValues ==
    CASE par_kind = "fixed" -> {Scalar(x) : x \in Vals}
      [] par_kind = "continuous" -> {Scalar(x) : x \in Vals}
      [] par_kind = "range" -> {Array(<<x, y>>) : x \in Vals, y \in Vals}
      [] par_kind = "discrete" -> {Scalar(x) : x \in Vals}
      [] par_kind = "multi" -> {Array(q) : q \in SeqsOf(Vals, 0..MaxSize)}

\* The declared domain of the parameter (spec section 3.5).
InDomain(x) ==
    CASE par_kind = "fixed" -> x = par_init
      [] par_kind = "continuous" -> par_low <= x.v[1] /\ x.v[1] <= par_high
      [] par_kind = "range" ->
            /\ Len(x.v) = 2
            /\ par_low <= x.v[1] /\ x.v[1] <= x.v[2] /\ x.v[2] <= par_high
      [] par_kind = "discrete" -> x.v[1] \in par_options
      [] par_kind = "multi" ->
            /\ \A i \in DOMAIN x.v : x.v[i] \in par_options
            /\ NoDuplicates(x.v)
            /\ par_min_size <= Len(x.v) /\ Len(x.v) <= par_max_size

\* The value getters (parameters.py:37-39, 77-83, 100-108, 126-129, 149-155), given
\* the draw r that set_random_value makes when _value is None: the _value the
\* getter leaves behind and what it returns or raises.  The RangeParameter
\* getter calls self._value.clip, which an ndarray has and a list has not, and
\* then stores sorted(...), a list.
value_get(stored, r) ==
    LET s0 == IF stored = NoneValue THEN r ELSE stored
    IN  CASE par_kind = "fixed" -> [stored |-> stored, ret |-> Ok(stored)]
          [] par_kind = "continuous" ->
                LET c == Scalar(np_clip(s0.v[1], par_low, par_high))
                IN  [stored |-> c, ret |-> Ok(c)]
          [] par_kind = "range" ->
                IF s0.tag # "ndarray"
                THEN [stored |-> s0, ret |-> Raised("AttributeError")]
                ELSE LET c == [i \in DOMAIN s0.v |->
                                  np_clip(s0.v[i], par_low, par_high)]
                         l == List(sorted(c))
                     IN  [stored |-> l, ret |-> Ok(l)]
          [] par_kind = "discrete" -> [stored |-> s0, ret |-> Ok(s0)]
          [] par_kind = "multi" ->
                LET s1 == IF par_sorted THEN Array(sorted(s0.v)) ELSE s0
                IN  [stored |-> s1, ret |-> Ok(s1)]

\* The value setters (parameters.py:41-43, 85-87, 110-114, 131-134, 157-161).
\* The FixedParameter setter raises.  The ContinuousParameter setter stores
\* what it is given.  The RangeParameter
\* setter asserts self.low <= self.value <= self.high: it reads the current
\* value through the getter and compares a float with the list it returns.
value_set(stored, x, r) ==
    CASE par_kind = "fixed" ->
            [stored |-> stored, ret |-> Raised("TypeError")]
      [] par_kind = "continuous" -> [stored |-> x, ret |-> Ok(NoneValue)]
      [] par_kind = "range" ->
            LET g == value_get(stored, r)
            IN  IF g.ret.err # "none" THEN g
                ELSE [stored |-> g.stored, ret |-> Raised("TypeError")]
      [] par_kind = "discrete" ->
            IF x.v[1] \in par_options
            THEN [stored |-> x, ret |-> Ok(NoneValue)]
            ELSE [stored |-> stored, ret |-> Raised("AssertionError")]
      [] par_kind = "multi" ->
            IF \A i \in DOMAIN x.v : x.v[i] \in par_options
            THEN [stored |-> x, ret |-> Ok(NoneValue)]
            ELSE [stored |-> stored, ret |-> Raised("AssertionError")]

\* set_random_value: the draw is stored; the FixedParameter inherits the
\* method that raises (parameters.py:28-29).
set_random_value(stored, r) ==
    IF par_kind = "fixed"
    THEN [stored |-> stored, ret |-> Raised("NotImplementedError")]
    ELSE [stored |-> r, ret |-> Ok(NoneValue)]

\* A parameter as its constructor leaves it (parameters.py:72-75, 94-98,
\* 121-124, 141-147): the domain is stored, _value is the initial value or
\* None.  A DiscreteParameter or MultiDiscreteParameter is given an initial
\* value of its domain, a FixedParameter (parameters.py:32-35) a number.  No
\* SynchronizedParameter yet.
InitParam ==
    /\ OrchestratorAtRest
    /\ genomes = {}
    /\ to_evaluate = EmptyTable
    /\ under_evaluation = <<>>
    /\ evaluation_results = <<>>
    /\ EvaluatorUnused
    /\ par_kind \in ParamKinds
    /\ IF par_kind \in {"continuous", "range"}
       THEN /\ par_low \in 0..(MaxVal - 1)
            /\ par_high \in par_low..(MaxVal - 1)
            /\ par_options = {}
       ELSE /\ par_low = 0
            /\ par_high = 0
            /\ par_options \in OptionSets
    /\ IF par_kind = "multi"
       THEN /\ par_min_size \in 0..1
            /\ par_max_size \in 1..MaxSize
            /\ par_max_size <= Cardinality(par_options)
            /\ par_sorted \in BOOLEAN
       ELSE /\ par_min_size = 0
            /\ par_max_size = 0
            /\ par_sorted = FALSE
    /\ par_value \in
          CASE par_kind = "fixed" -> WriteValues
            [] par_kind \in {"continuous", "range"} ->
                  {NoneValue} \cup WriteValues
            [] par_kind \in {"discrete", "multi"} ->
                  {NoneValue} \cup {x \in WriteValues : InDomain(x)}
    /\ par_init = par_value
    /\ sync_built = FALSE
    /\ sync_cached = NoneValue
    /\ par_op = "none"
    /\ par_arg = NoneValue
    /\ par_ret = Ok(NoneValue)
    /\ par_repeats = TRUE
    /\ par_changed = FALSE
    /\ par_echo = TRUE

\* What is noted of an operation: its name, argument and outcome, whether a
\* read that follows a read had the outcome of that read, whether any stored
\* value changed, and, for a read that follows a successful write of
\* a value of the domain, whether the read returned the written value.
Noted(op, arg, ret) ==
    /\ par_op' = op
    /\ par_arg' = arg
    /\ par_ret' = ret
    /\ par_repeats' = ((op = "read" /\ par_op = "read") => ret = par_ret)
    /\ par_changed' = (par_value' # par_value \/ sync_cached' # sync_cached)
    /\ par_echo' = IF /\ op = "read"
                      /\ par_op = "write"
                      /\ par_ret.err = "none"
                      /\ InDomain(par_arg)
                   THEN ret.err = "none" /\ ret.val.v = par_arg.v
                   ELSE TRUE
    /\ UNCHANGED <<ea_vars, pop_vars, ev_vars, par_kind, par_low, par_high,
                   par_options, par_min_size, par_max_size, par_sorted,
                   par_init>>

\* p.value is read.
ParamRead ==
    \E r \in Draws :
        LET g == value_get(par_value, r)
        IN  /\ par_value' = g.stored
            /\ UNCHANGED <<sync_built, sync_cached>>
            /\ Noted("read", NoneValue, g.ret)

\* p.value = x.
ParamWrite(x) ==
    \E r \in Draws :
        LET s == value_set(par_value, x, r)
        IN  /\ par_value' = s.stored
            /\ UNCHANGED <<sync_built, sync_cached>>
            /\ Noted("write", x, s.ret)

\* p.set_random_value().
ParamSetRandom ==
    \E r \in RandomValues :
        LET s == set_random_value(par_value, r)
        IN  /\ par_value' = s.stored
            /\ UNCHANGED <<sync_built, sync_cached>>
            /\ Noted("random", NoneValue, s.ret)

\* SynchronizedParameter(p) (parameters.py:52-54): the constructor reads
\* p.value and keeps it as its own _value, and keeps the link.
SyncConstruct ==
    /\ ~sync_built
    /\ \E r \in Draws :
        LET g == value_get(par_value, r)
        IN  /\ par_value' = g.stored
            /\ sync_built' = (g.ret.err = "none")
            /\ sync_cached' = g.ret.val
            /\ Noted("construct_sync", NoneValue, g.ret)

\* SynchronizedParameter.value (parameters.py:56-58) returns what reading
\* the linked parameter, with outcome g, returns.
sync_get(g) == g.ret

\* SynchronizedParameter.value is read: the linked parameter's getter runs.
SyncRead ==
    /\ sync_built
    /\ \E r \in Draws :
        LET g == value_get(par_value, r)
        IN  /\ par_value' = g.stored
            /\ UNCHANGED <<sync_built, sync_cached>>
            /\ Noted("read_sync", NoneValue, sync_get(g))

\* SynchronizedParameter.value = x (parameters.py:60-62).
SyncWrite(x) ==
    /\ sync_built
    /\ UNCHANGED <<par_value, sync_built, sync_cached>>
    /\ Noted("write_sync", x, Raised("TypeError"))

NextParam ==
    \/ ParamRead
    \/ \E x \in WriteValues : ParamWrite(x)
    \/ ParamSetRandom
    \/ SyncConstruct
    \/ SyncRead
    \/ \E x \in WriteValues : SyncWrite(x)

SpecParam == InitParam /\ [][NextParam]_vars

\* ------------------------------------------------------------ the claims
\* The calls of the current run() made after the preparation.
LoopCalls == SubSeq(calls, Len(Prelude) + 1, Len(calls))

Count(q, x) == Cardinality({k \in DOMAIN q : q[k] = x})

\* C1: in run(), the k-th call of the loop is the ((k-1) mod 15 + 1)-th of the
\* fifteen hooks and phase actions before_reproduction .. after_selection, so
\* every generation makes them in that order, each once, and the generation
\* counter is incremented only after a whole sequence: a generation's calls
\* never overlap the next one's.
C1_GenerationSequence ==
    last_op = "run" =>
        /\ \A k \in DOMAIN LoopCalls :
               LoopCalls[k] =
                   <<"before_reproduction", "reproduce", "after_reproduction",
                     "before_evaluation", "evaluate", "after_evaluation",
                     "before_logging", "log", "after_logging",
                     "before_saving", "save", "after_saving",
                     "before_selection", "select", "after_selection">>
                       [((k - 1) % 15) + 1]
        /\ ea_pc \in {"while", "branch", "discard"} =>
               Len(LoopCalls) = 15 * iterations
        /\ ea_pc = "incr" => Len(LoopCalls) = 15 * (iterations + 1)
        /\ ea_pc = "body" => Len(LoopCalls) = 15 * iterations + ea_i - 1
        /\ (ea_pc = "idle" /\ last_error = "none") =>
               Len(LoopCalls) = 15 * iterations

C1_Witness ==
    /\ last_op = "run"
    /\ ea_pc = "while"
    /\ iterations = 2
    /\ Len(LoopCalls) = 30

\* C2: is_done() returns true exactly when the generation budget is set and
\* the generation counter has reached it, or the evaluation budget is set and
\* the cumulative evaluation counter has reached it.
C2_IsDoneIff ==
    ea_pc = "branch" =>
        (is_done_ret <=>
            \/ (num_generations # None /\ generation >= num_generations)
            \/ (num_evaluations # None /\ pop_num_evaluations >= num_evaluations))

C2_Witness ==
    /\ ea_pc = "branch"
    /\ is_done_ret
    /\ num_generations # None
    /\ generation < num_generations
    /\ num_evaluations # None
    /\ pop_num_evaluations >= num_evaluations
    /\ iterations > 0

\* C7: a run uses only an evaluator built during that run, at most one, and
\* leaves none cached when it returns.
C7_FreshEvaluatorPerRun ==
    last_op = "run" =>
        /\ \A e \in evaluators_used : e > evaluators_at_start
        /\ Cardinality(evaluators_used) <= 1
        /\ (ea_pc = "idle" /\ last_error = "none") => ea_evaluator = 0

\* C8: with the distributed evaluator configured, analyze_genomes ends without
\* error, on a fresh population holding exactly the supplied genomes, and
\* returns one result per supplied genome.
C8_AnalyzeDistributed ==
    (evaluator_kind = "ray" /\ last_op = "analyze") =>
        /\ last_error = "none"
        /\ SeqToSet(analyze_ret) = genomes
        /\ Len(analyze_ret) = Cardinality(genomes)

\* C9: with neither budget set, is_done() is never true and run() never
\* reaches the statement after the loop nor returns normally.
C9_NoBudgetNeverDone ==
    (num_generations = None /\ num_evaluations = None) =>
        /\ ~is_done_ret
        /\ ea_pc # "discard"
        /\ (last_op = "run" /\ ea_pc = "idle") => last_error # "none"

C9_Witness ==
    /\ num_generations = None
    /\ num_evaluations = None
    /\ ea_pc = "branch"
    /\ iterations = 2

\* C10: before the first before_reproduction, a resumed run has called
\* load_checkpoint, initialise_from_checkpoint and select, in that order and
\* once each, and never initialise_population; a fresh run has called only
\* initialise_population, and never load_checkpoint, initialise_from_checkpoint
\* or a select before the loop.
C10_Preparation ==
    last_op = "run" =>
        LET expected ==
                IF from_checkpoint
                THEN <<"load_checkpoint", "initialise_from_checkpoint", "select">>
                ELSE <<"initialise_population">>
            n == Len(expected)
        IN  /\ \A k \in DOMAIN calls : k <= n => calls[k] = expected[k]
            /\ \A k \in DOMAIN calls :
                   k > n => calls[k] \notin {"load_checkpoint",
                                             "initialise_from_checkpoint",
                                             "initialise_population"}
            /\ \A k \in DOMAIN calls :
                   calls[k] = "before_reproduction" => k > n
            /\ ea_pc # "prepare" => Len(calls) >= n
            /\ ea_pc = "prepare" => Len(calls) = ea_i - 1 /\ ea_i <= n

C10_Witness ==
    /\ last_op = "run"
    /\ from_checkpoint
    /\ ea_pc = "body"
    /\ Len(calls) = 4
    /\ calls[4] = "before_reproduction"

\* The positions, in the current call's submissions, of the jobs that never
\* complete.
Stuck == {k \in DOMAIN submitted_kinds : submitted_kinds[k] = "never"}

\* Every job the current call submitted, except those at positions ks,
\* completes before the harvest deadline.
AllPromptBut(ks) ==
    \A k \in DOMAIN submitted_kinds : k \notin ks => submitted_kinds[k] = "prompt"

Pending == TableKeys(to_evaluate)

\* C3: when evaluate() returns from a call with a non-empty pending set in
\* which every submitted job completed before the harvest deadline, the
\* pending set is empty, the result list holds exactly one result per id that
\* was pending at the start, and under_evaluation is empty.
C3_AllComplete ==
    (/\ ev_pc = "done"
     /\ pending_at_start # {}
     /\ clean_at_start
     /\ AllPromptBut({})) =>
        /\ Pending = {}
        /\ SeqToSet(evaluation_results) = pending_at_start
        /\ Len(evaluation_results) = Cardinality(pending_at_start)
        /\ under_evaluation = <<>>

C3_Witness ==
    /\ ev_pc = "done"
    /\ clean_at_start
    /\ AllPromptBut({})
    /\ Cardinality(pending_at_start) = 3
    /\ num_workers = 2
    /\ Len(evaluation_results) = 3
    /\ evaluation_results # submitted

\* What C4 concludes: the job that never completes is still under evaluation
\* and has no result; every other id that was pending has exactly one result
\* and is no longer under evaluation.
OnlyStuckLeft ==
    \A k \in DOMAIN submitted :
        IF k \in Stuck
        THEN /\ submitted[k] \in SeqToSet(under_evaluation)
             /\ submitted[k] \notin SeqToSet(evaluation_results)
        ELSE /\ Count(evaluation_results, submitted[k]) = 1
             /\ submitted[k] \notin SeqToSet(under_evaluation)

OneStuckCall ==
    /\ ev_pc = "done"
    /\ clean_at_start
    /\ Cardinality(Stuck) = 1
    /\ AllPromptBut(Stuck)

\* C4 as stated: for any worker count, when evaluate() returns from a call in
\* which exactly one submitted job never completes and the others complete
\* promptly once run, only the never-completing job's id is left under
\* evaluation and every other id has exactly one result.
C4_OneStuck == OneStuckCall => OnlyStuckLeft

\* C4 as amended: the same, for two or more workers, or for one worker when
\* the never-completing job is the last one submitted.
C4_OneStuckSpareWorker ==
    (/\ OneStuckCall
     /\ (num_workers >= 2 \/ Stuck = {Len(submitted)})) => OnlyStuckLeft

C4_Witness ==
    /\ OneStuckCall
    /\ num_workers = 2
    /\ Len(submitted) = 3
    /\ Stuck = {1}
    /\ timed_out
    /\ Len(evaluation_results) = 2

\* C5 as stated: in every state no id is both pending and under evaluation,
\* and an id whose result has been harvested is in neither.
C5_Disjoint ==
    /\ Pending \cap SeqToSet(under_evaluation) = {}
    /\ ev_pc \in {"harvest", "done"} =>
           \A id \in harvested :
               id \notin Pending /\ id \notin SeqToSet(under_evaluation)

\* C5 as amended: provided no id is marked pending while it is under
\* evaluation, no id is both pending and under evaluation in any state outside
\* the submission loop; inside the loop every id already submitted is in both,
\* until the pending set is cleared; and an id whose result has been harvested
\* by a call is in neither for the rest of that call.
C5_DisjointOutsideSubmission ==
    ~overlap_added =>
        /\ ev_pc # "submit" => Pending \cap SeqToSet(under_evaluation) = {}
        /\ ev_pc = "submit" =>
               Pending \cap SeqToSet(under_evaluation) = SeqToSet(submitted)
        /\ ev_pc \in {"harvest", "done"} =>
               \A id \in harvested :
                   id \notin Pending /\ id \notin SeqToSet(under_evaluation)

C5_Witness ==
    /\ ~overlap_added
    /\ ev_pc = "done"
    /\ ev_calls = 2
    /\ harvested # {}
    /\ under_evaluation # <<>>
    /\ timed_out

\* C6: two evaluate() calls with the same set of pending ids submit the
\* genomes in the same order.
C6_DeterministicOrder ==
    \A p, q \in orders : p[1] = q[1] => p[2] = q[2]

\* C11: every read of a RangeParameter succeeds and returns two numbers in
\* non-decreasing order within [low, high], and a read that follows a read
\* returns the same value again without failing.
C11_RangeRead ==
    (par_kind = "range" /\ par_op = "read") =>
        /\ par_ret.err = "none"
        /\ Len(par_ret.val.v) = 2
        /\ par_low <= par_ret.val.v[1]
        /\ par_ret.val.v[1] <= par_ret.val.v[2]
        /\ par_ret.val.v[2] <= par_high
        /\ par_repeats

\* C12: a write of a value outside the declared domain raises at that write
\* and leaves the stored value as it was; a write of a value of the domain
\* succeeds, and the read that follows it returns the written value.
C12_WritesValidated ==
    /\ (par_kind # "fixed" /\ par_op = "write") =>
          IF InDomain(par_arg)
          THEN par_ret.err = "none"
          ELSE par_ret.err # "none" /\ ~par_changed
    /\ (par_kind # "fixed" /\ par_op = "read") => par_echo

\* C13: every read of a DiscreteParameter returns an option, and every read
\* of a MultiDiscreteParameter returns options only, without duplicates, and
\* min_size to max_size of them.
C13_DiscreteInDomain ==
    (par_kind \in {"discrete", "multi"} /\ par_op = "read") =>
        /\ par_ret.err = "none"
        /\ InDomain(par_ret.val)

\* C14: every write to a FixedParameter or a SynchronizedParameter raises and
\* changes nothing; a read of the FixedParameter returns its construction
\* value; a read of the SynchronizedParameter returns the linked parameter's
\* current value.
C14_ReadOnly ==
    /\ (par_op = "write_sync" \/ (par_kind = "fixed" /\ par_op = "write")) =>
          par_ret.err # "none" /\ ~par_changed
    /\ (par_kind = "fixed" /\ par_op = "read") => par_ret = Ok(par_init)
    /\ par_op = "read_sync" => par_ret.err = "none" /\ par_ret.val = par_value

\* C15 as stated: the ids a timeout left under evaluation stay there for
\* good, and the result list of a call under way or returned holds only ids
\* that were pending when that call started.
C15_AbandonedLost ==
    ~overlap_added =>
        /\ SeqToSet(under_at_start) \subseteq SeqToSet(under_evaluation)
        /\ (ev_pc \in {"harvest", "done"} =>
                SeqToSet(evaluation_results) \subseteq pending_at_start)

\* C15, amended: a job abandoned by a harvest timeout stays in the pool, its
\* id under evaluation and its result out of the result list, until a later
\* evaluate() call pulls it; so an id that was under evaluation when a call
\* started is still under evaluation or in that call's result list, and the
\* result list holds only ids that were pending or under evaluation when the
\* call started.
C15_AbandonedUntilPulled ==
    ~overlap_added =>
        /\ \A id \in abandoned :
              /\ id \in Outstanding
              /\ id \in SeqToSet(under_evaluation)
              /\ id \notin SeqToSet(evaluation_results)
        /\ (ev_pc \in {"harvest", "done"} =>
              /\ SeqToSet(evaluation_results)
                    \subseteq pending_at_start \cup SeqToSet(under_at_start)
              /\ SeqToSet(under_at_start) \subseteq
                    SeqToSet(under_evaluation) \cup SeqToSet(evaluation_results))

\* A second call has returned after it pulled the result of a job the first
\* call abandoned, while another abandoned job is still outstanding.
C15_Witness ==
    /\ ~overlap_added
    /\ ev_pc = "done"
    /\ ev_calls = 2
    /\ abandoned # {}
    /\ \E id \in SeqToSet(evaluation_results) :
          id \notin pending_at_start /\ id \in SeqToSet(under_at_start)

\* evaluate() is in its first pull, which has no deadline, and every busy
\* worker holds a job that never completes: no pull ever returns.
Blocked ==
    /\ ev_pc = "harvest"
    /\ has_next
    /\ timeout = None
    /\ \A a \in Busy : ~running[a].ready /\ running[a].kind = "never"

\* C16 as stated: when some job the call submitted completes once it is run
\* on a worker, evaluate() is never blocked for good.
C16_NeverStalls ==
    (\E k \in DOMAIN submitted_kinds : submitted_kinds[k] \in {"prompt", "slow"})
        => ~Blocked

\* C16, amended: once the submissions are done, evaluate() leaves its harvest
\* loop (it returns, or raises what a failed job raised) provided a result
\* has been pulled already, or no job is in flight, or some job that is
\* running on a worker, not merely queued, is one that completes.
C16_ReturnsWhenRunningCompletes ==
    (/\ ev_pc = "harvest"
     /\ (timeout # None \/ ~has_next
            \/ \E a \in Busy : running[a].kind # "never"))
        ~> (ev_pc # "harvest")

\* A call with a job that never completes on one worker and a job that
\* completes on the other has returned by the deadline, the former job left
\* behind.
C16_Witness ==
    /\ ev_pc = "done"
    /\ timed_out
    /\ \E a \in Busy : running[a].kind = "never"
    /\ \E k \in DOMAIN submitted_kinds : submitted_kinds[k] = "never"
    /\ harvested # {}

C18_ConstructionSucceeds ==
    evaluator_kind = "ray" => last_error # "RecursionError"

\* C19: from the start of the loop of run() the generation counter is the
\* generation the loop started at plus the number of completed iterations,
\* and every iteration made all fifteen calls of the body; and a run() with a
\* generation budget G and no evaluation budget whose loop started at
\* generation g0 ends after exactly max(0, G - g0) iterations, none when
\* g0 >= G.
C19_GenerationBudget ==
    (last_op = "run" /\ ea_pc # "prepare") =>
        /\ generation = loop_start_generation + iterations
        /\ last_error = "none" =>
              Len(LoopCalls) =
                  Len(LoopBody) * iterations
                      + (CASE ea_pc = "body" -> ea_i - 1
                           [] ea_pc = "incr" -> Len(LoopBody)
                           [] OTHER -> 0)
        /\ (/\ ea_pc \in {"discard", "idle"}
            /\ last_error = "none"
            /\ num_generations # None
            /\ num_evaluations = None) =>
              iterations = (IF num_generations > loop_start_generation
                            THEN num_generations - loop_start_generation
                            ELSE 0)

\* A second run() on the same orchestrator has returned without an
\* iteration, the first one having used up the budget of two generations.
C19_Witness ==
    /\ ops = 2
    /\ last_op = "run"
    /\ ea_pc = "idle"
    /\ last_error = "none"
    /\ ~from_checkpoint
    /\ num_generations = 2
    /\ num_evaluations = None
    /\ generation = 2
    /\ iterations = 0
    /\ calls = Prelude

\* C20: when no id was marked pending while it was under evaluation, at each
\* return of evaluate() every id that was pending or under evaluation when
\* the call started is in exactly one of the result list and
\* under_evaluation, neither holds an id twice, and the pending set is empty.
C20_Conservation ==
    (~overlap_added /\ ev_pc = "done") =>
        /\ \A id \in pending_at_start \cup SeqToSet(under_at_start) :
              (id \in SeqToSet(evaluation_results))
                  # (id \in SeqToSet(under_evaluation))
        /\ NoDuplicates(evaluation_results)
        /\ NoDuplicates(under_evaluation)
        /\ TableKeys(to_evaluate) = {}

\* A second call has returned: of the ids it started with, pending or left
\* under evaluation by the first call, one of each is in the result list, and
\* one id is still under evaluation.
C20_Witness ==
    /\ ~overlap_added
    /\ ev_pc = "done"
    /\ ev_calls = 2
    /\ SeqToSet(under_at_start) \cap SeqToSet(evaluation_results) # {}
    /\ pending_at_start \cap SeqToSet(evaluation_results) # {}
    /\ under_evaluation # <<>>

====
